---------------------------- MODULE Spec2Model ----------------------------
(***************************************************************************)
(* Real-time trip chat: backend/chat/consumers.py (ChatConsumer),          *)
(* backend/chat/middleware.py (JWTAuthMiddleware) and                       *)
(* backend/chat/models.py (ChatRoom, ChatMessage).                          *)
(*                                                                         *)
(* One consumer instance per connection.  Channels dispatches the messages *)
(* of one consumer (websocket.connect, websocket.receive, group events,    *)
(* websocket.disconnect) one at a time, so a handler runs to completion    *)
(* before the next message of the same connection is handled; handlers of  *)
(* different connections interleave at their awaits (database calls,       *)
(* group_add, group_send).  An action below is one handler, or the part of *)
(* a handler between two awaits at which another connection can observe a  *)
(* difference.                                                             *)
(***************************************************************************)
EXTENDS Integers, Sequences, FiniteSets, TLC

\* ------------------------------------------------------------------------
\* Universe and bounds
\* ------------------------------------------------------------------------
Conns == {"c1", "c2"}
Users == {"alice", "bob"}
Trips == {"t1", "t2"}
Anonymous == "anonymous"          \* AnonymousUser()
NoTrip == "none"

\* Bounds of the model (not program constants).
MaxMsgs == 3                       \* message ids (uuid4 values) available
MaxFrames == 1                     \* client frames handled in one run
MaxClock == 1                      \* latest value of the wall clock
MaxRoomFrames == 2                 \* client frames handled in a run of SpecRoom
MaxRequests == 3                   \* API requests in a run of SpecRate

\* Program constants, scaled down so that their limits are reached:
\* get_recent_messages(limit=50) and len(content) > 10000.
DefaultLimit == 1
MaxContentLen == 2

\* RATE_LIMIT_DEFAULT (100 requests per window), scaled down.
DEFAULT_RATE_LIMIT == 2

UNAUTHORIZED == 4001
FORBIDDEN == 4003
NoCode == 0

MsgIds == 1..MaxMsgs
NoMsg == 0                         \* None / missing id (falsy)
BadId == -1                        \* a string that is not a UUID

\* Text is a sequence of characters; " " is whitespace.
SP == " "
ContentInputs ==
    { <<>>, <<SP>>, <<SP, "a", "b", SP>>, <<"a", "b", "c">> }

MESSAGE_TYPE_CHOICES == {"text", "system", "file"}
Absent == "absent"                 \* key missing from the frame
MessageTypeInputs == {Absent, "video"}

\* Handshake credentials.  The token validator accepts tokA and tokB.
NoToken == "none"
QueryTokens == {NoToken, "bad", "tokA", "tokB"}
NoHeader == <<>>
Headers == {NoHeader, <<"Bearer", "">>, <<"Bearer", "tokA">>,
            <<"Bearer", "bad">>, <<"Basic", "tokA">>}

\* Collaborator rows at start: alice on both trips, bob on t1 only.
InitCollab == {<<"alice", "t1">>, <<"alice", "t2">>, <<"bob", "t1">>}

VARIABLES
    pc,         \* connection -> position in its lifecycle
    user,       \* connection -> scope['user']
    trip,       \* connection -> self.trip_id
    closeCode,  \* connection -> code of self.close(), or NoCode
    collab,     \* Collaborator rows: <<user, trip>>
    rooms,      \* ChatRoom rows: trip -> rows of the trip, named by creator
    msgs,       \* ChatMessage rows
    clock,      \* timezone.now() at the last write
    groups,     \* channel layer: trip (group chat_trip_<id>) -> channels
    inbox,      \* channel layer: connection -> queued group events
    sent,       \* connection -> frames sent to its client, in order
    pending,    \* connection -> event saved and not yet published
    handled,    \* connection -> group events its consumer has taken, in order
    nframes,    \* client frames handled so far
    frameBound, \* client frames a run handles at most (fixed by Init)
    published,  \* connection -> events it passed to group_send, in order
    raised,     \* exception of the last direct ChatMessage.objects.create
    cache,      \* Django cache: rate-limit key -> counter, or Missing
    requests    \* API request -> position in process_request, key, count read

chatVars == <<pc, user, trip, closeCode, collab, rooms, msgs, clock, groups,
              inbox, sent, pending, handled, nframes, frameBound, published,
              raised>>

rateVars == <<cache, requests>>

vars == <<pc, user, trip, closeCode, collab, rooms, msgs, clock, groups,
          inbox, sent, pending, handled, nframes, frameBound, published,
          raised, cache, requests>>

NoRoom == {}
NoEvent == [type |-> "none"]
NoException == "none"

\* ------------------------------------------------------------------------
\* Text
\* ------------------------------------------------------------------------
RECURSIVE lstrip(_)
lstrip(s) == IF s # <<>> /\ Head(s) = SP THEN lstrip(Tail(s)) ELSE s

RECURSIVE rstrip(_)
rstrip(s) ==
    IF s # <<>> /\ s[Len(s)] = SP THEN rstrip(SubSeq(s, 1, Len(s) - 1)) ELSE s

\* str.strip()
strip(s) == rstrip(lstrip(s))

Reverse(s) == [i \in 1..Len(s) |-> s[Len(s) + 1 - i]]

Last(s) == s[Len(s)]

\* ------------------------------------------------------------------------
\* middleware/rate_limiting.py: state at start
\* ------------------------------------------------------------------------
\* _get_identifier: user:<id> or ip:<address>
Identifiers == {"user:1", "ip:10.0.0.1"}

\* A path that starts with /api/ and with no exempt prefix, and has no
\* limit of its own in ENDPOINT_LIMITS.
ApiPath == "/api/v1/trips/"

Reqs == 1..MaxRequests

\* No entry in the cache under the key.
Missing == -1

NoKey == <<>>

\* cache_key = f"rate_limit:{identifier}:{path}"
CacheKey(identifier, path) == <<identifier, path>>

CacheKeys == {CacheKey(i, ApiPath) : i \in Identifiers}

\* An empty cache and no request under way.
InitRate ==
    /\ cache = [k \in CacheKeys |-> Missing]
    /\ requests = [r \in Reqs |->
                     [pc |-> "idle", key |-> NoKey, current_count |-> 0]]

\* ------------------------------------------------------------------------
\* middleware.py
\* ------------------------------------------------------------------------
\* get_user_from_token: the user of a valid token, None (Anonymous) otherwise.
get_user_from_token(token) ==
    CASE token = "tokA" -> "alice"
      [] token = "tokB" -> "bob"
      [] OTHER -> Anonymous

\* Mutant: the Authorization header is tried first, the query parameter
\* when the header gave no token.
SelectToken_headerFirst(q, h) ==
    IF h # NoHeader /\ h[1] = "Bearer" /\ h[2] # "" THEN h[2]
    ELSE q

\* JWTAuthMiddleware.__call__: the query parameter first, then the
\* Authorization header when the query gave no (non-empty) token.
SelectToken(q, h) ==
    IF q # NoToken THEN q
    ELSE IF h # NoHeader /\ h[1] = "Bearer" /\ h[2] # "" THEN h[2]
    ELSE NoToken

ScopeUser(q, h) ==
    LET token == SelectToken(q, h)
    IN  IF token # NoToken THEN get_user_from_token(token) ELSE Anonymous

\* ------------------------------------------------------------------------
\* models.py: ChatMessage
\* ------------------------------------------------------------------------
MsgById(id) == CHOOSE m \in msgs : m.id = id

StoredIds == {m.id : m \in msgs}

RoomMsgs(t) == {m \in msgs : m.chat_room = t}

\* default=uuid.uuid4: an id no row has.  The code compares ids for equality
\* only, so unused ids are interchangeable and the least one is taken.
uuid4 ==
    {id \in MsgIds \ StoredIds : \A other \in MsgIds \ StoredIds : id <= other}

\* ChatMessage(...): the instance before save.  The primary key has
\* default=uuid.uuid4, so the instance carries an id from construction on.
NewChatMessage(id, room, sender, content, mtype, reply_to) ==
    [id |-> id, chat_room |-> room, sender |-> sender, content |-> content,
     message_type |-> mtype, reply_to |-> reply_to, is_edited |-> FALSE,
     created_at |-> 0, updated_at |-> 0]

\* Mutant: the room of the reply target is not compared.
clean_anyRoom(m) == strip(m.content) # <<>>

\* ChatMessage.clean
clean(m) ==
    /\ strip(m.content) # <<>>
    /\ m.reply_to # NoMsg => MsgById(m.reply_to).chat_room = m.chat_room

\* Model.clean_fields, as far as the consumer can violate it: content is not
\* blank and message_type is one of the choices.
clean_fields(m) ==
    /\ m.content # <<>>
    /\ m.message_type \in MESSAGE_TYPE_CHOICES

full_clean(m) == clean_fields(m) /\ clean(m)

\* `if self.pk:` in ChatMessage.save
HasPk(m) == m.id # NoMsg

\* ChatMessage.save, before the write: the is_edited flag.
FlagEdited(m) == IF HasPk(m) THEN [m EXCEPT !.is_edited = TRUE] ELSE m

\* Mutant: created_at is set on every save.
WrittenRow_touchCreated(m, now) ==
    [m EXCEPT !.created_at = now, !.updated_at = now]

\* The row written by super().save(): auto_now_add sets created_at on
\* insert only, auto_now sets updated_at on every save.
WrittenRow(m, now) ==
    [m EXCEPT !.created_at = IF m.id \in StoredIds THEN @ ELSE now,
              !.updated_at = now]

\* ChatMessage.save: [ok |-> FALSE] for a ValidationError of full_clean.
ChatMessage_save(m, now) ==
    LET flagged == FlagEdited(m)
    IN  IF full_clean(flagged)
        THEN [ok |-> TRUE, row |-> WrittenRow(flagged, now)]
        ELSE [ok |-> FALSE]

\* ------------------------------------------------------------------------
\* consumers.py: database helpers
\* ------------------------------------------------------------------------
\* Mutant: every authenticated user has access.
check_trip_access_open(u, t) == TRUE

\* check_trip_access
check_trip_access(u, t) == <<u, t>> \in collab

\* The reply_to lookup of save_message: "bad" when the id is no UUID (the
\* lookup raises ValidationError), NoMsg when there is no such message in
\* the room (DoesNotExist is swallowed) or no id was given.
ResolveReplyTo(reply_to_id, t) ==
    IF reply_to_id = NoMsg THEN [ok |-> TRUE, id |-> NoMsg]
    ELSE IF reply_to_id \notin MsgIds THEN [ok |-> FALSE]
    ELSE IF \E m \in RoomMsgs(t) : m.id = reply_to_id
         THEN [ok |-> TRUE, id |-> reply_to_id]
         ELSE [ok |-> TRUE, id |-> NoMsg]

\* data.get('message_type', 'text')
MessageTypeOf(mt) == IF mt = Absent THEN "text" ELSE mt

\* What the database does with the queries of one save_message: it answers
\* them, or one of them raises (connection lost, timeout, ...).
DbOk == "ok"
DbError == "error"
DbOutcomes == {DbOk, DbError}

\* Mutant: the write goes through although the database raised.
save_message_writesAnyway(id, t, u, content, reply_to_id, mtype, now, db) ==
    IF rooms[t] = NoRoom THEN [ok |-> FALSE]
    ELSE LET r == ResolveReplyTo(reply_to_id, t)
         IN  IF ~r.ok THEN [ok |-> FALSE]
             ELSE ChatMessage_save(
                      NewChatMessage(id, t, u, content, mtype, r.id), now)

\* save_message: [ok |-> TRUE, row |-> message] or [ok |-> FALSE] (None):
\* every exception of the lookups and of create is caught and gives None.
save_message(id, t, u, content, reply_to_id, mtype, now, db) ==
    IF db = DbError THEN [ok |-> FALSE]
    ELSE IF rooms[t] = NoRoom THEN [ok |-> FALSE]
    ELSE LET r == ResolveReplyTo(reply_to_id, t)
         IN  IF ~r.ok THEN [ok |-> FALSE]
             ELSE ChatMessage_save(
                      NewChatMessage(id, t, u, content, mtype, r.id), now)

\* Mutant: the sender is not part of the filter.
EditMatches_anySender(m, message_id, t, u) ==
    /\ m.id = message_id
    /\ m.chat_room = t

\* The filter of update_message: id, chat_room__trip_id and sender.
EditMatches(m, message_id, t, u) ==
    /\ m.id = message_id
    /\ m.chat_room = t
    /\ m.sender = u

\* Mutant: the new content is not assigned before the save.
update_message_keepsContent(message_id, t, u, new_content, now) ==
    IF \E m \in msgs : EditMatches(m, message_id, t, u)
    THEN LET m == CHOOSE x \in msgs : EditMatches(x, message_id, t, u)
         IN  ChatMessage_save(m, now)
    ELSE [ok |-> FALSE]

\* update_message: [ok |-> TRUE, row |-> message] or [ok |-> FALSE] (None).
update_message(message_id, t, u, new_content, now) ==
    IF \E m \in msgs : EditMatches(m, message_id, t, u)
    THEN LET m == CHOOSE x \in msgs : EditMatches(x, message_id, t, u)
         IN  ChatMessage_save([m EXCEPT !.content = new_content], now)
    ELSE [ok |-> FALSE]

\* serialize_message, without the sender's profile fields and with reply_to
\* reduced to the id of the target.
serialize_message(m) ==
    [id |-> m.id, chat_room_id |-> m.chat_room, sender |-> m.sender,
     content |-> m.content, message_type |-> m.message_type,
     reply_to |-> m.reply_to, is_edited |-> m.is_edited,
     created_at |-> m.created_at, updated_at |-> m.updated_at]

\* order_by('-created_at'): every order of the rows that is descending in
\* created_at; rows with equal created_at come in an order the database
\* chooses.
IsDescending(s) ==
    \A i \in 1..(Len(s) - 1) : s[i].created_at >= s[i + 1].created_at

Orderings(S) ==
    {s \in [1..Cardinality(S) -> S] :
        /\ \A i, j \in 1..Cardinality(S) : i # j => s[i] # s[j]
        /\ IsDescending(s)}

\* [:limit]
Slice(s, limit) == SubSeq(s, 1, IF Len(s) < limit THEN Len(s) ELSE limit)

\* Mutant: the slice is not reversed.
Chronological_unreversed(s) == s

\* list(reversed(messages))
Chronological(s) == Reverse(s)

\* get_recent_messages: the results the read can return; [] when the room
\* row is missing (DoesNotExist is caught).
get_recent_messages(t, limit) ==
    IF rooms[t] = NoRoom THEN {<<>>}
    ELSE {Chronological(Slice(s, limit)) : s \in Orderings(RoomMsgs(t))}

\* ------------------------------------------------------------------------
\* consumers.py: events, frames and the channel layer
\* ------------------------------------------------------------------------
ChatEvent(m) == [type |-> "chat_message", message |-> serialize_message(m)]

EditedEvent(m) == [type |-> "message_edited", message |-> serialize_message(m)]

\* The event of handle_typing.  origin is not a field of the event: it
\* records the publishing connection.
TypingEvent(c, is_typing) ==
    [type |-> "typing_indicator", user_id |-> user[c],
     is_typing |-> is_typing, origin |-> c]

HistoryFrame(h) ==
    [type |-> "message_history",
     messages |-> [i \in 1..Len(h) |-> serialize_message(h[i])]]

ErrorFrame(text) == [type |-> "error", message |-> text]

ERR_EMPTY == "Message content cannot be empty"
ERR_TOO_LONG == "Message is too long (max 10000 characters)"
ERR_SAVE == "Failed to save message"
ERR_NO_ID == "message_id is required"
ERR_NOT_FOUND == "Message not found or you do not have permission to edit it"
ERR_UNKNOWN == "Unknown message type"
ERR_JSON == "Invalid JSON format"
ERR_INTERNAL == "An error occurred processing your message"

\* The answers of receive to a frame it does not dispatch: text that is no
\* JSON, JSON whose type is none of the three, and JSON that is no object
\* (data.get raises, and the last handler of receive answers).
InvalidFrameErrors == {ERR_JSON, ERR_UNKNOWN, ERR_INTERNAL}

\* Mutants: the event is forwarded to everyone; the event is held back from
\* the publishing channel only.
ForwardsTyping_always(ev, c) == TRUE

ForwardsTyping_byChannel(ev, c) == ev.origin # c

\* `if event['user_id'] != str(self.user.id)` in typing_indicator
ForwardsTyping(ev, c) == ev.user_id # user[c]

\* The frame a consumer sends for a group event: chat_message,
\* message_edited, typing_indicator.  <<>> when nothing is sent.
FramesFor(ev, c) ==
    CASE ev.type = "chat_message" ->
            << [type |-> "chat_message", message |-> ev.message] >>
      [] ev.type = "message_edited" ->
            << [type |-> "message_edited", message |-> ev.message] >>
      [] ev.type = "typing_indicator" ->
            IF ForwardsTyping(ev, c)
            THEN << [type |-> "typing", user_id |-> ev.user_id,
                     is_typing |-> ev.is_typing, origin |-> ev.origin] >>
            ELSE <<>>

\* Mutant: the event is queued for the channels of every group.
group_send_everyRoom(c, t, ev) ==
    /\ inbox' = [d \in Conns |->
                   IF \E g \in Trips : d \in groups[g]
                   THEN Append(inbox[d], ev) ELSE inbox[d]]
    /\ published' = [published EXCEPT ![c] = Append(@, ev)]

\* Mutant: the event is not queued for the publishing channel.
group_send_exceptSender(c, t, ev) ==
    /\ inbox' = [d \in Conns |->
                   IF d \in groups[t] /\ d # c THEN Append(inbox[d], ev)
                   ELSE inbox[d]]
    /\ published' = [published EXCEPT ![c] = Append(@, ev)]

\* Mutant: the event is queued only for the channels whose consumer has
\* finished connect; a channel that is in the group but has not been sent
\* its history yet misses it.
group_send_connectedOnly(c, t, ev) ==
    /\ inbox' = [d \in Conns |->
                   IF d \in groups[t] /\ pc[d] # "ACCEPTED"
                   THEN Append(inbox[d], ev) ELSE inbox[d]]
    /\ published' = [published EXCEPT ![c] = Append(@, ev)]

\* channel_layer.group_send: the event is queued for every channel of the
\* group at the time of the call.  (A channel holds up to 1500 events; a
\* run of this model queues at most MaxFrames.)
group_send(c, t, ev) ==
    /\ inbox' = [d \in Conns |->
                   IF d \in groups[t] THEN Append(inbox[d], ev) ELSE inbox[d]]
    /\ published' = [published EXCEPT ![c] = Append(@, ev)]

\* timezone.now() at a write: the clock does not go back, and it need not
\* have advanced since the last write.
Now == {n \in 0..MaxClock : clock <= n /\ n <= clock + 1}

\* send_error
send_error(c, text) == sent' = [sent EXCEPT ![c] = Append(@, ErrorFrame(text))]

\* ------------------------------------------------------------------------
\* State machine
\* ------------------------------------------------------------------------
\* The database when the first connection opens: trip t1 has had a session
\* (its room exists and holds a message of alice, written through
\* ChatMessage.save), trip t2 has had none.
Earlier == "earlier"

EarlierMsg ==
    [id |-> 1, chat_room |-> "t1", sender |-> "alice", content |-> <<"a">>,
     message_type |-> "text", reply_to |-> NoMsg, is_edited |-> TRUE,
     created_at |-> 0, updated_at |-> 0]

Init ==
    /\ rooms = [t \in Trips |-> IF t = "t1" THEN {Earlier} ELSE NoRoom]
    /\ msgs = {EarlierMsg}
    /\ pc = [c \in Conns |-> "INIT"]
    /\ user = [c \in Conns |-> Anonymous]
    /\ trip = [c \in Conns |-> NoTrip]
    /\ closeCode = [c \in Conns |-> NoCode]
    /\ collab = InitCollab
    /\ clock = 0
    /\ groups = [t \in Trips |-> {}]
    /\ inbox = [c \in Conns |-> <<>>]
    /\ sent = [c \in Conns |-> <<>>]
    /\ pending = [c \in Conns |-> NoEvent]
    /\ handled = [c \in Conns |-> <<>>]
    /\ nframes = 0
    /\ frameBound = MaxFrames
    /\ published = [c \in Conns |-> <<>>]
    /\ raised = NoException
    /\ InitRate

\* Mutant: the authentication check is skipped.
is_anonymous_never(u) == FALSE

\* `if self.user.is_anonymous` in connect
is_anonymous(u) == u = Anonymous

\* The close code connect ends with, NoCode when it goes on to join.
ConnectCode(u, t) ==
    IF is_anonymous(u) THEN UNAUTHORIZED
    ELSE IF ~check_trip_access(u, t) THEN FORBIDDEN
    ELSE NoCode

\* Connections are interchangeable: they open in the order c1, c2.
ConnBefore(d, c) == d = "c1" /\ c = "c2"

\* JWTAuthMiddleware.__call__, then connect up to the access check.
Connect(c, t, q, h) ==
    /\ pc[c] = "INIT"
    /\ \A d \in Conns : ConnBefore(d, c) => pc[d] # "INIT"
    /\ LET u == ScopeUser(q, h)
           code == ConnectCode(u, t)
       IN  /\ user' = [user EXCEPT ![c] = u]
           /\ trip' = [trip EXCEPT ![c] = t]
           /\ closeCode' = [closeCode EXCEPT ![c] = code]
           /\ pc' = [pc EXCEPT ![c] = IF code = NoCode THEN "JOINING"
                                      ELSE "REJECTED"]
    /\ UNCHANGED rateVars
    /\ UNCHANGED <<collab, frameBound, raised, published, rooms, msgs, clock, groups,
                   inbox, sent, pending, handled, nframes>>

\* Mutant: the table takes a second row for the trip.
InsertRoom_noUnique(t, c) == [rooms EXCEPT ![t] = @ \cup {c}]

\* The INSERT of get_or_create under the unique constraint of
\* ChatRoom.trip (OneToOneField): with a row for the trip present it raises
\* IntegrityError, the table stays as it is and get_or_create returns the
\* row that is there.
InsertRoom(t, c) ==
    IF rooms[t] = NoRoom THEN [rooms EXCEPT ![t] = @ \cup {c}] ELSE rooms

\* ensure_chat_room: ChatRoom.objects.get_or_create(trip=trip)
ensure_chat_room(c, t) ==
    IF rooms[t] = NoRoom THEN InsertRoom(t, c) ELSE rooms

\* Mutant: the channel is not added to the group.
group_add_skipped(t, c) == groups

\* channel_layer.group_add
group_add(t, c) == [groups EXCEPT ![t] = @ \cup {c}]

\* Mutant: the channel stays in the group.
group_discard_skipped(t, c) == groups

\* channel_layer.group_discard
group_discard(t, c) == [groups EXCEPT ![t] = @ \ {c}]

\* connect: ensure_chat_room, group_add, accept.
JoinRoom(c) ==
    /\ pc[c] = "JOINING"
    /\ rooms' = ensure_chat_room(c, trip[c])
    /\ groups' = group_add(trip[c], c)
    /\ pc' = [pc EXCEPT ![c] = "ACCEPTED"]
    /\ UNCHANGED rateVars
    /\ UNCHANGED <<user, trip, closeCode, collab, frameBound, raised, published,
                   msgs, clock, inbox, sent, pending, handled, nframes>>

\* connect: send_recent_messages.
SendRecentMessages(c) ==
    /\ pc[c] = "ACCEPTED"
    /\ \E h \in get_recent_messages(trip[c], DefaultLimit) :
           sent' = [sent EXCEPT ![c] = Append(@, HistoryFrame(h))]
    /\ pc' = [pc EXCEPT ![c] = "ACTIVE"]
    /\ UNCHANGED rateVars
    /\ UNCHANGED <<user, trip, closeCode, collab, frameBound, raised, published,
                   rooms, msgs, clock, groups, inbox, pending, handled,
                   nframes>>

\* disconnect: group_discard.  It runs for a connection that connect closed
\* as well as for one that was accepted.
Disconnect(c) ==
    /\ pc[c] \in {"ACTIVE", "REJECTED"}
    /\ groups' = group_discard(trip[c], c)
    /\ pc' = [pc EXCEPT ![c] = "CLOSED"]
    /\ UNCHANGED rateVars
    /\ UNCHANGED <<user, trip, closeCode, collab, frameBound, raised, published,
                   rooms, msgs, clock, inbox, sent, pending, handled, nframes>>

\* The ids a frame can name in reply_to or message_id: none, a string that
\* is no UUID, the id of a stored message, or an id no message has (ids are
\* compared for equality only, so one such id stands for all).
IdInputs == {NoMsg, BadId} \cup StoredIds \cup uuid4

\* data.get('content', '').strip()
TrimmedContent(raw) == strip(raw)

\* Mutant: the length of the content is not checked.
TooLong_never(content) == FALSE

\* `if len(content) > 10000` in handle_chat_message
TooLong(content) == Len(content) > MaxContentLen

\* Mutant: the result of save_message is not looked at; a message that was
\* not written is published all the same.
RecvChat_publishesUnsaved(c, raw, reply_to_id, mt, newid, now, db) ==
    /\ pc[c] = "ACTIVE"
    /\ nframes < frameBound
    /\ reply_to_id \in IdInputs
    /\ newid \in uuid4
    /\ now \in Now
    /\ nframes' = nframes + 1
    /\ LET content == TrimmedContent(raw)
           r == save_message(newid, trip[c], user[c], content, reply_to_id,
                             MessageTypeOf(mt), now, db)
           unsaved == WrittenRow(NewChatMessage(newid, trip[c], user[c],
                                                content, MessageTypeOf(mt),
                                                NoMsg), now)
       IN  IF content = <<>>
           THEN /\ send_error(c, ERR_EMPTY)
                /\ UNCHANGED <<pc, msgs, pending, clock>>
           ELSE IF TooLong(content)
           THEN /\ send_error(c, ERR_TOO_LONG)
                /\ UNCHANGED <<pc, msgs, pending, clock>>
           ELSE /\ msgs' = IF r.ok THEN msgs \cup {r.row} ELSE msgs
                /\ pending' = [pending EXCEPT ![c] =
                                 ChatEvent(IF r.ok THEN r.row ELSE unsaved)]
                /\ pc' = [pc EXCEPT ![c] = "PUBLISHING"]
                /\ clock' = IF r.ok THEN now ELSE clock
                /\ UNCHANGED sent
    /\ UNCHANGED rateVars
    /\ UNCHANGED <<user, trip, closeCode, collab, frameBound, raised, published,
                   rooms, groups, inbox, handled>>

\* receive + handle_chat_message, up to the save.
RecvChat(c, raw, reply_to_id, mt, newid, now, db) ==
    /\ pc[c] = "ACTIVE"
    /\ nframes < frameBound
    /\ reply_to_id \in IdInputs
    /\ newid \in uuid4
    /\ now \in Now
    /\ nframes' = nframes + 1
    /\ LET content == TrimmedContent(raw)
           r == save_message(newid, trip[c], user[c], content, reply_to_id,
                             MessageTypeOf(mt), now, db)
       IN  IF content = <<>>
           THEN /\ send_error(c, ERR_EMPTY)
                /\ UNCHANGED <<pc, msgs, pending, clock>>
           ELSE IF TooLong(content)
           THEN /\ send_error(c, ERR_TOO_LONG)
                /\ UNCHANGED <<pc, msgs, pending, clock>>
           ELSE IF ~r.ok
           THEN /\ send_error(c, ERR_SAVE)
                /\ UNCHANGED <<pc, msgs, pending, clock>>
           ELSE /\ msgs' = msgs \cup {r.row}
                /\ pending' = [pending EXCEPT ![c] = ChatEvent(r.row)]
                /\ pc' = [pc EXCEPT ![c] = "PUBLISHING"]
                /\ clock' = now
                /\ UNCHANGED sent
    /\ UNCHANGED rateVars
    /\ UNCHANGED <<user, trip, closeCode, collab, frameBound, raised, published,
                   rooms, groups, inbox, handled>>

\* Mutant: a message that exists and is not the requester's to edit is
\* answered with an error of its own.
RecvEdit_tellsForbidden(c, message_id, raw, now) ==
    /\ pc[c] = "ACTIVE"
    /\ nframes < frameBound
    /\ message_id \in IdInputs
    /\ now \in Now
    /\ nframes' = nframes + 1
    /\ LET new_content == TrimmedContent(raw)
           r == update_message(message_id, trip[c], user[c], new_content,
                               now)
       IN  IF message_id = NoMsg
           THEN /\ send_error(c, ERR_NO_ID)
                /\ UNCHANGED <<pc, msgs, pending, clock>>
           ELSE IF new_content = <<>>
           THEN /\ send_error(c, ERR_EMPTY)
                /\ UNCHANGED <<pc, msgs, pending, clock>>
           ELSE IF ~r.ok
           THEN /\ send_error(c, IF message_id \in StoredIds
                                  THEN "You do not have permission"
                                  ELSE ERR_NOT_FOUND)
                /\ UNCHANGED <<pc, msgs, pending, clock>>
           ELSE /\ msgs' = {m \in msgs : m.id # r.row.id} \cup {r.row}
                /\ pending' = [pending EXCEPT ![c] = EditedEvent(r.row)]
                /\ pc' = [pc EXCEPT ![c] = "PUBLISHING"]
                /\ clock' = now
                /\ UNCHANGED sent
    /\ UNCHANGED rateVars
    /\ UNCHANGED <<user, trip, closeCode, collab, frameBound, raised, published,
                   rooms, groups, inbox, handled>>

\* receive + handle_edit_message, up to the update.
RecvEdit(c, message_id, raw, now) ==
    /\ pc[c] = "ACTIVE"
    /\ nframes < frameBound
    /\ message_id \in IdInputs
    /\ now \in Now
    /\ nframes' = nframes + 1
    /\ LET new_content == TrimmedContent(raw)
           r == update_message(message_id, trip[c], user[c], new_content,
                               now)
       IN  IF message_id = NoMsg
           THEN /\ send_error(c, ERR_NO_ID)
                /\ UNCHANGED <<pc, msgs, pending, clock>>
           ELSE IF new_content = <<>>
           THEN /\ send_error(c, ERR_EMPTY)
                /\ UNCHANGED <<pc, msgs, pending, clock>>
           ELSE IF ~r.ok
           THEN /\ send_error(c, ERR_NOT_FOUND)
                /\ UNCHANGED <<pc, msgs, pending, clock>>
           ELSE /\ msgs' = {m \in msgs : m.id # r.row.id} \cup {r.row}
                /\ pending' = [pending EXCEPT ![c] = EditedEvent(r.row)]
                /\ pc' = [pc EXCEPT ![c] = "PUBLISHING"]
                /\ clock' = now
                /\ UNCHANGED sent
    /\ UNCHANGED rateVars
    /\ UNCHANGED <<user, trip, closeCode, collab, frameBound, raised, published,
                   rooms, groups, inbox, handled>>

\* handle_chat_message / handle_edit_message: the group_send that follows
\* the database call.
Publish(c) ==
    /\ pc[c] = "PUBLISHING"
    /\ group_send(c, trip[c], pending[c])
    /\ pending' = [pending EXCEPT ![c] = NoEvent]
    /\ pc' = [pc EXCEPT ![c] = "ACTIVE"]
    /\ UNCHANGED rateVars
    /\ UNCHANGED <<user, trip, closeCode, collab, frameBound, raised, rooms, msgs,
                   clock, groups, sent, handled, nframes>>

\* Mutant: a typing frame is handled while the handler of the connection's
\* previous frame is still at its group_send.
RecvTyping_concurrent(c, is_typing) ==
    /\ pc[c] \in {"ACTIVE", "PUBLISHING"}
    /\ nframes < frameBound
    /\ nframes' = nframes + 1
    /\ group_send(c, trip[c], TypingEvent(c, is_typing))
    /\ UNCHANGED rateVars
    /\ UNCHANGED <<pc, user, trip, closeCode, collab, frameBound, raised, rooms,
                   msgs, clock, groups, sent, pending, handled>>

\* receive + handle_typing
RecvTyping(c, is_typing) ==
    /\ pc[c] = "ACTIVE"
    /\ nframes < frameBound
    /\ nframes' = nframes + 1
    /\ group_send(c, trip[c], TypingEvent(c, is_typing))
    /\ UNCHANGED rateVars
    /\ UNCHANGED <<pc, user, trip, closeCode, collab, frameBound, raised, rooms,
                   msgs, clock, groups, sent, pending, handled>>

\* Mutant: the connection is closed after the error frame.
RecvInvalid_closes(c, text) ==
    /\ pc[c] = "ACTIVE"
    /\ nframes < frameBound
    /\ nframes' = nframes + 1
    /\ send_error(c, text)
    /\ pc' = [pc EXCEPT ![c] = "CLOSED"]
    /\ groups' = group_discard(trip[c], c)
    /\ UNCHANGED rateVars
    /\ UNCHANGED <<user, trip, closeCode, collab, frameBound, raised, published,
                   rooms, msgs, clock, inbox, pending, handled>>

\* receive: a frame that is not JSON, or whose type is not a known one.
RecvInvalid(c, text) ==
    /\ pc[c] = "ACTIVE"
    /\ nframes < frameBound
    /\ nframes' = nframes + 1
    /\ send_error(c, text)
    /\ UNCHANGED rateVars
    /\ UNCHANGED <<pc, user, trip, closeCode, collab, frameBound, raised, published,
                   rooms, msgs, clock, groups, inbox, pending, handled>>

\* Mutant: events are forwarded to current members of the trip only.
Deliver_membersOnly(c) ==
    /\ pc[c] = "ACTIVE"
    /\ inbox[c] # <<>>
    /\ check_trip_access(user[c], trip[c])
    /\ sent' = [sent EXCEPT ![c] = @ \o FramesFor(Head(inbox[c]), c)]
    /\ inbox' = [inbox EXCEPT ![c] = Tail(@)]
    /\ handled' = [handled EXCEPT ![c] = Append(@, Head(inbox[c]))]
    /\ UNCHANGED rateVars
    /\ UNCHANGED <<pc, user, trip, closeCode, collab, frameBound, raised,
                   published, rooms, msgs, clock, groups, pending, nframes>>

\* chat_message / message_edited / typing_indicator: the consumer takes the
\* next group event of its channel and forwards it.
Deliver(c) ==
    /\ pc[c] = "ACTIVE"
    /\ inbox[c] # <<>>
    /\ sent' = [sent EXCEPT ![c] = @ \o FramesFor(Head(inbox[c]), c)]
    /\ inbox' = [inbox EXCEPT ![c] = Tail(@)]
    /\ handled' = [handled EXCEPT ![c] = Append(@, Head(inbox[c]))]
    /\ UNCHANGED rateVars
    /\ UNCHANGED <<pc, user, trip, closeCode, collab, frameBound, raised, published,
                   rooms, msgs, clock, groups, pending, nframes>>

\* The contents with which handle_chat_message reaches save_message.  With
\* any other content the frame is answered before reply_to, message_type or
\* the database are looked at, and when the database raises, reply_to and
\* message_type make no difference: Next takes those frames with one value
\* of the inputs that are not looked at.
SavedInputs ==
    {raw \in ContentInputs :
        TrimmedContent(raw) # <<>> /\ ~TooLong(TrimmedContent(raw))}

Next ==
    \/ \E c \in Conns, t \in Trips, q \in QueryTokens, h \in Headers :
           Connect(c, t, q, h)
    \/ \E c \in Conns : JoinRoom(c)
    \/ \E c \in Conns : SendRecentMessages(c)
    \/ \E c \in Conns : Disconnect(c)
    \/ \E c \in Conns, raw \in SavedInputs,
          reply_to_id \in MsgIds \cup {NoMsg, BadId},
          mt \in MessageTypeInputs, newid \in MsgIds, now \in 0..MaxClock :
           RecvChat(c, raw, reply_to_id, mt, newid, now, DbOk)
    \/ \E c \in Conns, raw \in ContentInputs, newid \in MsgIds,
          now \in 0..MaxClock :
           RecvChat(c, raw, NoMsg, Absent, newid, now, DbError)
    \/ \E c \in Conns, message_id \in MsgIds \cup {NoMsg, BadId},
          raw \in ContentInputs, now \in 0..MaxClock :
           RecvEdit(c, message_id, raw, now)
    \/ \E c \in Conns : Publish(c)
    \/ \E c \in Conns, is_typing \in {TRUE} : RecvTyping(c, is_typing)
    \/ \E c \in Conns, text \in InvalidFrameErrors : RecvInvalid(c, text)
    \/ \E c \in Conns : Deliver(c)

Spec == Init /\ [][Next]_vars

\* ------------------------------------------------------------------------
\* A session of one room: both connections have connected to trip t1 (alice
\* on c1, alice or bob on c2; both are collaborators), each has been sent
\* the history, and no frame has been received yet.  The state is one Spec
\* reaches by Connect, JoinRoom and SendRecentMessages of c1 and then c2;
\* from it the connections handle up to MaxRoomFrames frames.
\* ------------------------------------------------------------------------
InitRoom ==
    /\ rooms = [t \in Trips |-> IF t = "t1" THEN {Earlier} ELSE NoRoom]
    /\ msgs = {EarlierMsg}
    /\ pc = [c \in Conns |-> "ACTIVE"]
    /\ \E u \in Users : user = [c \in Conns |-> IF c = "c1" THEN "alice" ELSE u]
    /\ trip = [c \in Conns |-> "t1"]
    /\ closeCode = [c \in Conns |-> NoCode]
    /\ collab = InitCollab
    /\ clock = 0
    /\ groups = [t \in Trips |-> IF t = "t1" THEN Conns ELSE {}]
    /\ inbox = [c \in Conns |-> <<>>]
    /\ sent = [c \in Conns |-> << HistoryFrame(<< EarlierMsg >>) >>]
    /\ pending = [c \in Conns |-> NoEvent]
    /\ handled = [c \in Conns |-> <<>>]
    /\ nframes = 0
    /\ frameBound = MaxRoomFrames
    /\ published = [c \in Conns |-> <<>>]
    /\ raised = NoException
    /\ InitRate

\* The frames of a session: chat messages, typing, and frames that receive
\* rejects.
NextRoom ==
    \/ \E c \in Conns, raw \in ContentInputs, newid \in MsgIds,
          now \in 0..MaxClock :
           RecvChat(c, raw, NoMsg, Absent, newid, now, DbOk)
    \/ \E c \in Conns : Publish(c)
    \/ \E c \in Conns : RecvTyping(c, TRUE)
    \/ \E c \in Conns, text \in InvalidFrameErrors : RecvInvalid(c, text)
    \/ \E c \in Conns : Deliver(c)
    \/ \E c \in Conns : Disconnect(c)

SpecRoom == InitRoom /\ [][NextRoom]_vars

\* ------------------------------------------------------------------------
\* connect with the queries of get_or_create apart: the SELECT and the
\* INSERT of one connection are separate database calls, and the calls of
\* another connection can come between them.
\* ------------------------------------------------------------------------
\* ensure_chat_room: the get of get_or_create.
GetRoom(c) ==
    /\ pc[c] = "JOINING"
    /\ pc' = [pc EXCEPT ![c] = IF rooms[trip[c]] = NoRoom THEN "CREATING"
                                ELSE "SUBSCRIBING"]
    /\ UNCHANGED rateVars
    /\ UNCHANGED <<user, trip, closeCode, collab, frameBound, raised,
                   published, rooms, msgs, clock, groups, inbox, sent,
                   pending, handled, nframes>>

\* ensure_chat_room: the create of get_or_create, after a get that found no
\* row.
CreateRoom(c) ==
    /\ pc[c] = "CREATING"
    /\ rooms' = InsertRoom(trip[c], c)
    /\ pc' = [pc EXCEPT ![c] = "SUBSCRIBING"]
    /\ UNCHANGED rateVars
    /\ UNCHANGED <<user, trip, closeCode, collab, frameBound, raised,
                   published, msgs, clock, groups, inbox, sent, pending,
                   handled, nframes>>

\* connect: group_add, accept.
Subscribe(c) ==
    /\ pc[c] = "SUBSCRIBING"
    /\ groups' = group_add(trip[c], c)
    /\ pc' = [pc EXCEPT ![c] = "ACCEPTED"]
    /\ UNCHANGED rateVars
    /\ UNCHANGED <<user, trip, closeCode, collab, frameBound, raised,
                   published, rooms, msgs, clock, inbox, sent, pending,
                   handled, nframes>>

NextConnect ==
    \/ \E c \in Conns, t \in Trips, q \in QueryTokens, h \in Headers :
           Connect(c, t, q, h)
    \/ \E c \in Conns : GetRoom(c)
    \/ \E c \in Conns : CreateRoom(c)
    \/ \E c \in Conns : Subscribe(c)
    \/ \E c \in Conns : SendRecentMessages(c)
    \/ \E c \in Conns : Disconnect(c)

SpecConnect == Init /\ [][NextConnect]_vars

\* ------------------------------------------------------------------------
\* A session of one room in which handlers raise: the channel layer is
\* unreachable at a group_send, and a client sends a binary frame.
\* ------------------------------------------------------------------------
\* handle_chat_message / handle_edit_message: group_send raises after the
\* database call; the last handler of receive answers.
PublishFails(c) ==
    /\ pc[c] = "PUBLISHING"
    /\ send_error(c, ERR_INTERNAL)
    /\ pending' = [pending EXCEPT ![c] = NoEvent]
    /\ pc' = [pc EXCEPT ![c] = "ACTIVE"]
    /\ UNCHANGED rateVars
    /\ UNCHANGED <<user, trip, closeCode, collab, frameBound, raised,
                   published, rooms, msgs, clock, groups, inbox, handled,
                   nframes>>

\* A binary frame.  The framework calls self.receive(bytes_data=...), which
\* receive(self, text_data) does not accept: TypeError is raised at the
\* call, outside the try of receive, the consumer ends with the exception
\* and its disconnect handler does not run.
RecvBinary(c) ==
    /\ pc[c] = "ACTIVE"
    /\ nframes < frameBound
    /\ nframes' = nframes + 1
    /\ pc' = [pc EXCEPT ![c] = "CRASHED"]
    /\ UNCHANGED rateVars
    /\ UNCHANGED <<user, trip, closeCode, collab, frameBound, raised,
                   published, rooms, msgs, clock, groups, inbox, sent,
                   pending, handled>>

NextFrames ==
    \/ \E c \in Conns, raw \in SavedInputs, newid \in MsgIds,
          now \in 0..MaxClock :
           RecvChat(c, raw, NoMsg, Absent, newid, now, DbOk)
    \/ \E c \in Conns : Publish(c)
    \/ \E c \in Conns : PublishFails(c)
    \/ \E c \in Conns : RecvTyping(c, TRUE)
    \/ \E c \in Conns, text \in InvalidFrameErrors : RecvInvalid(c, text)
    \/ \E c \in Conns : RecvBinary(c)
    \/ \E c \in Conns : Deliver(c)

SpecFrames == InitRoom /\ [][NextFrames]_vars

\* ------------------------------------------------------------------------
\* A session of one room in which messages are edited: from the state of
\* InitRoom the connections handle edit_message frames; the update and the
\* group_send of one handler are separate awaits, between which the other
\* connection's handler can run.
\* ------------------------------------------------------------------------
NextEdits ==
    \/ \E c \in Conns, message_id \in MsgIds, raw \in ContentInputs,
          now \in 0..MaxClock :
           RecvEdit(c, message_id, raw, now)
    \/ \E c \in Conns : Publish(c)
    \/ \E c \in Conns : Deliver(c)

SpecEdits == InitRoom /\ [][NextEdits]_vars

\* ------------------------------------------------------------------------
\* Handshakes.  The first connection opens with any query string and any
\* Authorization header; the client of the second always sends alice's
\* token in the Authorization header, with any query string.  Accepted
\* connections join, are sent the history and exchange a message.
\* ------------------------------------------------------------------------
AliceHeader == <<"Bearer", "tokA">>

NextHandshake ==
    \/ \E t \in Trips, q \in QueryTokens, h \in Headers :
           Connect("c1", t, q, h)
    \/ \E t \in Trips, q \in QueryTokens : Connect("c2", t, q, AliceHeader)
    \/ \E c \in Conns : JoinRoom(c)
    \/ \E c \in Conns : SendRecentMessages(c)
    \/ \E c \in Conns, raw \in SavedInputs, newid \in MsgIds,
          now \in 0..MaxClock :
           RecvChat(c, raw, NoMsg, Absent, newid, now, DbOk)
    \/ \E c \in Conns : Publish(c)
    \/ \E c \in Conns : Deliver(c)
    \/ \E c \in Conns : Disconnect(c)

SpecHandshake == Init /\ [][NextHandshake]_vars

\* ------------------------------------------------------------------------
\* A session during which memberships are revoked.  bob is connected to t1
\* (c1, past the history) and a second connection may open; Collaborator
\* rows are deleted outside the chat (admin site, cascade of a deleted
\* user).
\* ------------------------------------------------------------------------
\* Collaborator.delete()
RemoveCollaborator(u, t) ==
    /\ <<u, t>> \in collab
    /\ collab' = collab \ {<<u, t>>}
    /\ UNCHANGED rateVars
    /\ UNCHANGED <<pc, user, trip, closeCode, rooms, msgs, clock, groups,
                   inbox, sent, pending, handled, nframes, frameBound,
                   published, raised>>

InitRevoke ==
    /\ rooms = [t \in Trips |-> IF t = "t1" THEN {Earlier} ELSE NoRoom]
    /\ msgs = {[EarlierMsg EXCEPT !.sender = "bob"]}
    /\ pc = [c \in Conns |-> IF c = "c1" THEN "ACTIVE" ELSE "INIT"]
    /\ user = [c \in Conns |-> IF c = "c1" THEN "bob" ELSE Anonymous]
    /\ trip = [c \in Conns |-> IF c = "c1" THEN "t1" ELSE NoTrip]
    /\ closeCode = [c \in Conns |-> NoCode]
    /\ collab = InitCollab
    /\ clock = 0
    /\ groups = [t \in Trips |-> IF t = "t1" THEN {"c1"} ELSE {}]
    /\ inbox = [c \in Conns |-> <<>>]
    /\ sent = [c \in Conns |->
                 IF c = "c1"
                 THEN << HistoryFrame(<< [EarlierMsg EXCEPT !.sender = "bob"] >>) >>
                 ELSE <<>>]
    /\ pending = [c \in Conns |-> NoEvent]
    /\ handled = [c \in Conns |-> <<>>]
    /\ nframes = 0
    /\ frameBound = MaxFrames
    /\ published = [c \in Conns |-> <<>>]
    /\ raised = NoException
    /\ InitRate

NextRevoke ==
    \/ \E u \in Users, t \in Trips : RemoveCollaborator(u, t)
    \/ \E c \in Conns, t \in Trips, q \in QueryTokens :
           Connect(c, t, q, NoHeader)
    \/ \E c \in Conns : JoinRoom(c)
    \/ \E c \in Conns : SendRecentMessages(c)
    \/ \E c \in Conns, raw \in SavedInputs, newid \in MsgIds,
          now \in 0..MaxClock :
           RecvChat(c, raw, NoMsg, Absent, newid, now, DbOk)
    \/ \E c \in Conns, message_id \in MsgIds, raw \in SavedInputs,
          now \in 0..MaxClock :
           RecvEdit(c, message_id, raw, now)
    \/ \E c \in Conns : RecvTyping(c, TRUE)
    \/ \E c \in Conns : Publish(c)
    \/ \E c \in Conns : Deliver(c)

SpecRevoke == InitRevoke /\ [][NextRevoke]_vars

\* ------------------------------------------------------------------------
\* The message store under its callers.  Both trips have a room; alice is
\* connected to t1 (c1, past the history); besides the frames of c1, rows
\* are created by direct calls of ChatMessage.objects.create (the admin
\* site, a shell, another task), which choose the room, the sender and the
\* reply target freely among the rows that exist.
\* ------------------------------------------------------------------------
ValidationError == "ValidationError"

StoreContents == { <<"a">>, <<SP>> }

\* ChatMessage.objects.create(chat_room=, sender=, content=, message_type=,
\* reply_to=): save() runs full_clean and, when it raises, writes nothing.
Create(t, u, content, mtype, reply_to, newid, now) ==
    /\ rooms[t] # NoRoom
    /\ reply_to \in {NoMsg} \cup StoredIds
    /\ newid \in uuid4
    /\ now \in Now
    /\ LET m == NewChatMessage(newid, t, u, content, mtype, reply_to)
           r == ChatMessage_save(m, now)
       IN  IF r.ok
           THEN /\ msgs' = msgs \cup {r.row}
                /\ clock' = now
                /\ raised' = NoException
           ELSE /\ raised' = ValidationError
                /\ UNCHANGED <<msgs, clock>>
    /\ UNCHANGED rateVars
    /\ UNCHANGED <<pc, user, trip, closeCode, collab, rooms, groups, inbox,
                   sent, pending, handled, nframes, frameBound, published>>

InitStore ==
    /\ rooms = [t \in Trips |-> {Earlier}]
    /\ msgs = {EarlierMsg}
    /\ pc = [c \in Conns |-> IF c = "c1" THEN "ACTIVE" ELSE "INIT"]
    /\ user = [c \in Conns |-> IF c = "c1" THEN "alice" ELSE Anonymous]
    /\ trip = [c \in Conns |-> IF c = "c1" THEN "t1" ELSE NoTrip]
    /\ closeCode = [c \in Conns |-> NoCode]
    /\ collab = InitCollab
    /\ clock = 0
    /\ groups = [t \in Trips |-> IF t = "t1" THEN {"c1"} ELSE {}]
    /\ inbox = [c \in Conns |-> <<>>]
    /\ sent = [c \in Conns |-> IF c = "c1"
                                THEN << HistoryFrame(<< EarlierMsg >>) >>
                                ELSE <<>>]
    /\ pending = [c \in Conns |-> NoEvent]
    /\ handled = [c \in Conns |-> <<>>]
    /\ nframes = 0
    /\ frameBound = MaxFrames
    /\ published = [c \in Conns |-> <<>>]
    /\ raised = NoException
    /\ InitRate

NextStore ==
    \/ \E t \in Trips, u \in Users, content \in StoreContents,
          reply_to \in MsgIds \cup {NoMsg}, newid \in MsgIds,
          now \in 0..MaxClock :
           Create(t, u, content, "text", reply_to, newid, now)
    \/ \E c \in Conns, raw \in ContentInputs,
          reply_to_id \in MsgIds \cup {NoMsg, BadId}, newid \in MsgIds,
          now \in 0..MaxClock :
           RecvChat(c, raw, reply_to_id, Absent, newid, now, DbOk)
    \/ \E c \in Conns : Publish(c)

SpecStore == InitStore /\ [][NextStore]_vars

\* ------------------------------------------------------------------------
\* middleware/rate_limiting.py: RateLimitingMiddleware.  Requests of the
\* API arrive on the worker threads and processes of the server; each runs
\* process_request, whose cache operations are separate calls to the shared
\* cache.  A run stays within one window: no key expires during it.
\* ------------------------------------------------------------------------
\* cache.get(cache_key, 0)
cache_get(k) == IF cache[k] = Missing THEN 0 ELSE cache[k]

\* process_request up to `if current_count >= limit`: the request is
\* answered with 429 or goes on to count itself.
CheckRateLimit(r, identifier, path) ==
    /\ requests[r].pc = "idle"
    /\ \A q \in Reqs : q < r => requests[q].pc # "idle"
    /\ LET k == CacheKey(identifier, path)
           current_count == cache_get(k)
       IN  requests' = [requests EXCEPT ![r] =
                          [pc |-> IF current_count >= DEFAULT_RATE_LIMIT
                                  THEN "limited" ELSE "adding",
                           key |-> k,
                           current_count |-> current_count]]
    /\ UNCHANGED cache
    /\ UNCHANGED chatVars

\* cache.add(cache_key, 0, RATE_LIMIT_WINDOW): sets the key if it is absent.
CacheAdd(r) ==
    /\ requests[r].pc = "adding"
    /\ cache' = [cache EXCEPT ![requests[r].key] =
                    IF @ = Missing THEN 0 ELSE @]
    /\ requests' = [requests EXCEPT ![r].pc = "incrementing"]
    /\ UNCHANGED chatVars

\* cache.incr(cache_key), then `return True`: the request is admitted.
CacheIncr(r) ==
    /\ requests[r].pc = "incrementing"
    /\ cache' = [cache EXCEPT ![requests[r].key] = @ + 1]
    /\ requests' = [requests EXCEPT ![r].pc = "admitted"]
    /\ UNCHANGED chatVars

NextRate ==
    \/ \E r \in Reqs, identifier \in Identifiers :
           CheckRateLimit(r, identifier, ApiPath)
    \/ \E r \in Reqs : CacheAdd(r)
    \/ \E r \in Reqs : CacheIncr(r)

SpecRate == Init /\ [][NextRate]_vars

\* ------------------------------------------------------------------------
\* Properties
\* ------------------------------------------------------------------------
\* The credentials a handshake carries: the token query parameter and the
\* Bearer value of the Authorization header.
Carried(q, h) ==
    (IF q # NoToken THEN {q} ELSE {})
        \cup (IF h # NoHeader /\ h[1] = "Bearer" THEN {h[2]} ELSE {})

Rejected(tok) == get_user_from_token(tok) = Anonymous

\* The connection has been sent nothing, is in no group and created no room.
NeverJoined(c) ==
    /\ sent[c] = <<>>
    /\ \A t \in Trips : c \notin groups[t] /\ c \notin rooms[t]

\* C1: a handshake with no credential, or with credentials the token
\* validator rejects, is closed with 4001; a connection closed with 4001 is
\* never sent a frame, never in a group and never creates a room.
C1_UnauthorizedClosed ==
    [][\A c \in Conns :
          /\ pc[c] = "INIT" =>
                \A t \in Trips, q \in QueryTokens, h \in Headers :
                    ((\A tok \in Carried(q, h) : Rejected(tok))
                        /\ Connect(c, t, q, h))
                      => pc'[c] = "REJECTED" /\ closeCode'[c] = UNAUTHORIZED
          /\ closeCode'[c] = UNAUTHORIZED
                => NeverJoined(c)' /\ pc'[c] \in {"REJECTED", "CLOSED"}
      ]_vars

\* A connection was closed with 4001 and has disconnected, while another
\* connection of the same trip is active and has been sent frames.
C1_Witness ==
    \E c, d \in Conns :
        /\ closeCode[c] = UNAUTHORIZED /\ pc[c] = "CLOSED"
        /\ d # c /\ trip[d] = trip[c] /\ pc[d] = "ACTIVE"
        /\ Len(sent[d]) > 1

\* C2: a handshake with a valid credential of a user who is no collaborator
\* of the trip is closed with 4003, which is not 4001; a connection closed
\* with 4003 is never sent a frame, never in a group and never creates a room.
C2_ForbiddenClosed ==
    [][\A c \in Conns :
          /\ pc[c] = "INIT" =>
                \A t \in Trips, q \in QueryTokens, h \in Headers :
                    (/\ ScopeUser(q, h) \in Users
                     /\ <<ScopeUser(q, h), t>> \notin collab
                     /\ Connect(c, t, q, h))
                        => /\ pc'[c] = "REJECTED"
                           /\ closeCode'[c] = FORBIDDEN
                           /\ closeCode'[c] # UNAUTHORIZED
          /\ closeCode'[c] = FORBIDDEN
                => NeverJoined(c)' /\ pc'[c] \in {"REJECTED", "CLOSED"}
      ]_vars

\* An authenticated user was closed with 4003 on a trip that still has no
\* room.
C2_Witness ==
    \E c \in Conns :
        /\ closeCode[c] = FORBIDDEN /\ pc[c] = "CLOSED"
        /\ user[c] \in Users
        /\ rooms[trip[c]] = NoRoom

\* C3: no typing frame sent to a connection's client comes from a typing
\* event that this connection published.
C3_TypingNotEchoed ==
    \A c \in Conns : \A i \in 1..Len(sent[c]) :
        sent[c][i].type = "typing" => sent[c][i].origin # c

\* A consumer has taken its own typing event from its channel.
C3_Witness ==
    \E c \in Conns : \E i \in 1..Len(handled[c]) :
        /\ handled[c][i].type = "typing_indicator"
        /\ handled[c][i].origin = c

IsTypingFrameOf(f, ev) ==
    /\ f.type = "typing"
    /\ f.origin = ev.origin
    /\ f.user_id = ev.user_id
    /\ f.is_typing = ev.is_typing

EditIds == IdInputs

ReplyIds == IdInputs

\* A stored message has this id, is in the connection's room and was sent by
\* the connection's user.
OwnMessage(c, id) ==
    \E m \in msgs : m.id = id /\ m.chat_room = trip[c] /\ m.sender = user[c]

\* C5: an edit_message frame that matches no stored message on (id, room,
\* sender) changes no stored message, publishes nothing, and sends one error
\* frame to the requester and nothing to anyone else.
C5_EditWithoutMatchFails ==
    [][nframes' # nframes =>
        \A c \in Conns, id \in EditIds : ~OwnMessage(c, id) =>
          \A raw \in ContentInputs, now \in Now :
            RecvEdit(c, id, raw, now)
                => /\ msgs' = msgs
                   /\ pending' = pending
                   /\ inbox' = inbox
                   /\ pc' = pc
                   /\ Len(sent'[c]) = Len(sent[c]) + 1
                   /\ SubSeq(sent'[c], 1, Len(sent[c])) = sent[c]
                   /\ Last(sent'[c]).type = "error"
                   /\ \A d \in Conns \ {c} : sent'[d] = sent[d]
      ]_vars

\* bob, in the room of alice's message, was answered that the message was
\* not found, and the message is as it was.
C5_Witness ==
    \E c \in Conns :
        /\ user[c] = "bob" /\ trip[c] = "t1"
        /\ sent[c] # <<>>
        /\ Last(sent[c]) = ErrorFrame(ERR_NOT_FOUND)
        /\ EarlierMsg \in msgs

\* C6: the message a chat_message frame persists, and the chat_message
\* event published for it, have is_edited = FALSE.
C6_CreatedUnedited ==
    [][/\ \A m \in msgs' : m.id \notin StoredIds => ~m.is_edited
       /\ \A c \in Conns :
             (pending'[c] # pending[c] /\ pending'[c].type = "chat_message")
                 => ~pending'[c].message.is_edited
      ]_vars

\* C7: an edit_message frame of the sender with non-empty trimmed content
\* replaces the message by itself with content = trim(content),
\* is_edited = TRUE and updated_at = now (not earlier than before); every
\* other field and every other message is unchanged.
C7_EditEffect ==
    [][nframes' # nframes =>
        \A c \in Conns, id \in MsgIds : OwnMessage(c, id) =>
          \A raw \in ContentInputs, now \in Now :
            (strip(raw) # <<>> /\ RecvEdit(c, id, raw, now))
                => LET old == MsgById(id)
                   IN  /\ msgs' = (msgs \ {old}) \cup
                                    {[old EXCEPT !.content = strip(raw),
                                                 !.is_edited = TRUE,
                                                 !.updated_at = now]}
                       /\ now >= old.updated_at
      ]_vars

\* The earlier message has been edited: new trimmed content, a later
\* updated_at, the created_at it had.
C7_Witness ==
    \E m \in msgs :
        /\ m.id = 1 /\ m.content = <<"a", "b">> /\ m.is_edited
        /\ m.created_at = 0 /\ m.updated_at = 1

ValidContent(raw) == strip(raw) # <<>> /\ Len(strip(raw)) <= MaxContentLen

\* The store gains exactly one message: in the connection's room, of the
\* connection's user, with the trimmed content.
GainsOne(c, raw) ==
    \E m \in msgs' :
        /\ m \notin msgs
        /\ msgs' = msgs \cup {m}
        /\ m.chat_room = trip[c]
        /\ m.sender = user[c]
        /\ m.content = strip(raw)

InFrame(f, m) == \E i \in 1..Len(f.messages) : f.messages[i].id = m.id

\* C8: every chat_message frame of the inbound grammar (message_type absent
\* or a declared type, reply_to any value) whose trimmed content is non-empty
\* and within the limit makes the store gain exactly one message of the
\* connection's room and user with the trimmed content; and a history read
\* includes every message of the room that has fewer than the limit later
\* messages.
C8_ValidContentPersists ==
    [][/\ nframes' # nframes =>
            \A raw \in ContentInputs : ValidContent(raw) =>
              \A c \in Conns, rt \in ReplyIds,
                 mt \in MessageTypeInputs \cap (MESSAGE_TYPE_CHOICES \cup {Absent}),
                 id \in uuid4, now \in Now :
                  RecvChat(c, raw, rt, mt, id, now, DbOk) => GainsOne(c, raw)
       /\ \A c \in Conns :
             SendRecentMessages(c)
                 => \A m \in RoomMsgs(trip[c]) :
                       Cardinality({x \in RoomMsgs(trip[c]) :
                                       x.created_at > m.created_at})
                               < DefaultLimit
                           => InFrame(Last(sent'[c]), m)
      ]_vars

\* The connection was accepted and connect has returned.
Joined(c) ==
    \/ pc[c] \in {"ACTIVE", "PUBLISHING"}
    \/ pc[c] = "CLOSED" /\ closeCode[c] = NoCode

\* C9: an accepted connection is in its group before the history is sent
\* and has been sent nothing until then; once connect has returned, the
\* first frame it was sent is the message_history frame and no other frame
\* is one; a connection that was not accepted is sent none.
C9_OneHistoryFirst ==
    \A c \in Conns :
        /\ pc[c] = "ACCEPTED" => c \in groups[trip[c]] /\ sent[c] = <<>>
        /\ Joined(c)
              => /\ sent[c] # <<>>
                 /\ sent[c][1].type = "message_history"
                 /\ \A i \in 2..Len(sent[c]) :
                       sent[c][i].type # "message_history"
        /\ (~Joined(c) /\ pc[c] # "ACCEPTED") => sent[c] = <<>>

\* A connection was sent its history and then a chat_message frame.
C9_Witness ==
    \E c \in Conns :
        /\ Len(sent[c]) >= 2
        /\ sent[c][1].type = "message_history"
        /\ sent[c][2].type = "chat_message"

Min(a, b) == IF a < b THEN a ELSE b

\* C10: a history read with limit n returns min(n, messages of the room)
\* distinct messages of that room, in ascending created_at order, and none
\* of the messages left out is later than one returned.
C10_RecentMessages ==
    \A t \in Trips, n \in 0..(MaxMsgs + 1) :
        \A h \in get_recent_messages(t, n) :
            /\ Len(h) = Min(n, Cardinality(RoomMsgs(t)))
            /\ \A i \in 1..Len(h) : h[i] \in RoomMsgs(t)
            /\ \A i, j \in 1..Len(h) : i # j => h[i] # h[j]
            /\ \A i, j \in 1..Len(h) :
                  i < j => h[i].created_at <= h[j].created_at
            /\ \A x \in RoomMsgs(t) :
                  (\A i \in 1..Len(h) : h[i] # x)
                      => \A i \in 1..Len(h) : x.created_at <= h[i].created_at

\* A room holds an earlier and a later message, and a connection's history
\* frame, cut to the limit, holds the later one only.
C10_Witness ==
    \E c \in Conns, m1, m2 \in msgs :
        /\ m1.chat_room = m2.chat_room /\ trip[c] = m1.chat_room
        /\ m1.created_at < m2.created_at
        /\ sent[c] # <<>>
        /\ sent[c][1].type = "message_history"
        /\ Len(sent[c][1].messages) = DefaultLimit
        /\ InFrame(sent[c][1], m2)
        /\ ~InFrame(sent[c][1], m1)

\* The messages of the chat_message events (or frames) of a sequence, in
\* the order of the sequence.
IsChat(x) == x.type = "chat_message"

ChatMessages(seq) ==
    LET chats == SelectSeq(seq, IsChat)
    IN  [i \in 1..Len(chats) |-> chats[i].message]

\* The messages connection c has published chat_message events for, in
\* the order of its group_send calls.
PublishedBy(c) == ChatMessages(published[c])

\* Those messages of a sequence that c published.
FromPublisher(c, ms) ==
    SelectSeq(ms, LAMBDA m : \E i \in 1..Len(PublishedBy(c)) : PublishedBy(c)[i] = m)

IsPrefix(s, t) == Len(s) <= Len(t) /\ SubSeq(t, 1, Len(s)) = s

\* C11: in a room both connections subscribed to before any frame, the
\* chat_message frames a connection's client was sent for the events of one
\* publisher, followed by the events of that publisher still queued for it,
\* are the publisher's chat_message events in publish order, as long as the
\* connection has not disconnected (the publisher itself included); every
\* chat_message event a consumer took was forwarded as a frame; and what a
\* disconnected client was sent is a prefix of what was published.
C11_ChatToAllInOrder ==
    \A d \in Conns :
        /\ ChatMessages(sent[d]) = ChatMessages(handled[d])
        /\ \A c \in Conns :
              /\ pc[d] \in {"ACTIVE", "PUBLISHING"}
                    => FromPublisher(c, ChatMessages(sent[d]))
                           \o FromPublisher(c, ChatMessages(inbox[d]))
                         = PublishedBy(c)
              /\ IsPrefix(FromPublisher(c, ChatMessages(sent[d])),
                          PublishedBy(c))

\* One connection has published two chat_message events, and both clients
\* have been sent the two frames in that order.
C11_Witness ==
    \E c \in Conns :
        /\ Len(PublishedBy(c)) = 2
        /\ \A d \in Conns : ChatMessages(sent[d]) = PublishedBy(c)

\* The events about message id that connections hold after the save or
\* have passed to group_send: <<connection, 0>> for a pending event,
\* <<connection, i>> for the i-th published one.
EventsAbout(type, id) ==
    {<<c, 0>> : c \in {x \in Conns : /\ pending[x].type = type
                                      /\ pending[x].message.id = id}}
    \cup {ci \in Conns \X (1..(MaxFrames + MaxRoomFrames)) :
            /\ ci[2] <= Len(published[ci[1]])
            /\ published[ci[1]][ci[2]].type = type
            /\ published[ci[1]][ci[2]].message.id = id}

\* Every message event queued for a connection is about a message of the
\* connection's room.
OwnRoomEventsOnly ==
    \A d \in Conns : \A i \in 1..Len(inbox[d]) :
        inbox[d][i].type \in {"chat_message", "message_edited"}
            => inbox[d][i].message.chat_room_id = trip[d]

\* C12: a frame that writes a message leaves its connection with exactly
\* the event for the written row (chat_message for a new message,
\* message_edited with the new content and is_edited for an edit); the
\* publish that follows passes that one event to group_send once, which
\* queues it for the channels of the connection's room and no other; a
\* message created in the run has exactly one chat_message event; and no
\* connection is queued a message event of another room.
C12_OneEventToOwnRoom ==
    [][/\ \A c \in Conns :
             /\ (pc[c] = "ACTIVE" /\ pc'[c] = "PUBLISHING")
                   => \E m \in msgs' :
                         /\ msgs' \ {m} = {x \in msgs : x.id # m.id}
                         /\ m.chat_room = trip[c]
                         /\ pending'[c].message = serialize_message(m)
                         /\ pending'[c].type =
                               IF m.id \in StoredIds THEN "message_edited"
                               ELSE "chat_message"
                         /\ m.id \in StoredIds => m.is_edited
             /\ (pc[c] = "PUBLISHING" /\ pc'[c] # "PUBLISHING")
                   => /\ published'[c] = Append(published[c], pending[c])
                      /\ pending'[c] = NoEvent
                      /\ \A d \in Conns :
                            inbox'[d] = IF d \in groups[trip[c]]
                                        THEN Append(inbox[d], pending[c])
                                        ELSE inbox[d]
             /\ pc[c] = "PUBLISHING" => pending[c] # NoEvent
             /\ (pc[c] = "PUBLISHING" /\ pc'[c] = "PUBLISHING")
                   => pending'[c] = pending[c] /\ published'[c] = published[c]
       /\ msgs' # msgs => \E c \in Conns : pc[c] = "ACTIVE" /\ pc'[c] = "PUBLISHING"
       /\ \A id \in StoredIds' \ {EarlierMsg.id} :
             Cardinality(EventsAbout("chat_message", id)') = 1
       /\ OwnRoomEventsOnly'
      ]_vars

\* A connection of one room has published the message_edited event of an
\* edit, with the new content and is_edited, while an open connection of
\* another room has been queued and sent nothing but its history.
C12_Witness ==
    \E c, d \in Conns :
        /\ trip[c] = "t1" /\ trip[d] = "t2" /\ pc[d] = "ACTIVE"
        /\ published[c] # <<>>
        /\ published[c][1].type = "message_edited"
        /\ published[c][1].message.content = <<"a", "b">>
        /\ published[c][1].message.is_edited
        /\ inbox[c] = <<>> /\ Len(sent[c]) = 2
        /\ inbox[d] = <<>> /\ Len(sent[d]) = 1

\* The frame is answered with one error frame to connection c and has no
\* other effect: no client is sent anything else, the store is unchanged,
\* nothing is saved for publishing, published or queued, and every
\* connection stays as open and as subscribed as it was.
AnsweredWithErrorOnly(c) ==
    /\ Len(sent'[c]) = Len(sent[c]) + 1
    /\ SubSeq(sent'[c], 1, Len(sent[c])) = sent[c]
    /\ Last(sent'[c]).type = "error"
    /\ \A d \in Conns \ {c} : sent'[d] = sent[d]
    /\ UNCHANGED <<msgs, rooms, pending, published, inbox, pc, closeCode,
                   groups>>

\* C13: a chat_message frame whose trimmed content is empty or longer than
\* the limit is answered with an error frame to the sender only; the store
\* is unchanged, nothing is published, and the connection stays open
\* (ACTIVE) and subscribed.  (Stated as: a step that is not such an answer
\* to c is not the handling of such a frame of c.)
C13_InvalidContentRejected ==
    [][nframes' # nframes =>
        \A c \in {x \in Conns : pc[x] = "ACTIVE"} :
            \/ /\ AnsweredWithErrorOnly(c)
               /\ pc'[c] = "ACTIVE"
               /\ c \in groups'[trip[c]]
            \/ \A raw \in ContentInputs :
                  (strip(raw) = <<>> \/ Len(strip(raw)) > MaxContentLen) =>
                    \A rt \in ReplyIds, mt \in MessageTypeInputs,
                       id \in uuid4, now \in Now, db \in DbOutcomes :
                        ~RecvChat(c, raw, rt, mt, id, now, db)
      ]_vars

\* A connection was answered that its message is too long; it is open and
\* subscribed and the store holds the earlier message only.
C13_Witness ==
    \E c \in Conns :
        /\ sent[c] # <<>>
        /\ Last(sent[c]) = ErrorFrame(ERR_TOO_LONG)
        /\ pc[c] = "ACTIVE" /\ c \in groups[trip[c]]
        /\ msgs = {EarlierMsg}

\* The handlers of a frame are ready for connection c.
HandlesFrames(c) ==
    /\ ENABLED RecvTyping(c, TRUE)
    /\ ENABLED RecvInvalid(c, ERR_JSON)
    /\ ENABLED (\E now \in 0..MaxClock : RecvEdit(c, EarlierMsg.id, <<"a", "b", "c">>, now))

StoreFails(rt, mt, db) ==
    \/ db = DbError
    \/ rt = BadId
    \/ MessageTypeOf(mt) \notin MESSAGE_TYPE_CHOICES

\* C15: when the save of a chat_message frame with valid content fails
\* (validation or storage error), the sender is sent the error frame
\* 'Failed to save message' and nothing else happens: no message is added,
\* no chat_message event is saved for publishing, published or queued, and
\* the connection stays open (ACTIVE) and subscribed.  (Stated as: a step
\* that is not such an answer to c is not the handling of such a frame.)
C15_FailedSaveAnswered ==
    [][nframes' # nframes =>
        \A c \in {x \in Conns : pc[x] = "ACTIVE"} :
            \/ /\ AnsweredWithErrorOnly(c)
               /\ Last(sent'[c]) = ErrorFrame(ERR_SAVE)
               /\ pc'[c] = "ACTIVE"
               /\ c \in groups'[trip[c]]
            \/ \A raw \in ContentInputs : ValidContent(raw) =>
                  \A rt \in ReplyIds, mt \in MessageTypeInputs,
                     db \in DbOutcomes :
                      StoreFails(rt, mt, db) =>
                        \A id \in uuid4, now \in Now :
                            ~RecvChat(c, raw, rt, mt, id, now, db)
      ]_vars

\* A connection was answered that its message could not be saved; it is
\* open and subscribed, the store holds the earlier message only and
\* nothing was published or queued.
C15_Witness ==
    \E c \in Conns :
        /\ sent[c] # <<>>
        /\ Last(sent[c]) = ErrorFrame(ERR_SAVE)
        /\ pc[c] = "ACTIVE" /\ c \in groups[trip[c]]
        /\ msgs = {EarlierMsg}
        /\ \A d \in Conns : published[d] = <<>> /\ inbox[d] = <<>>

\* The ids an edit_message frame of c can name that match none of c's own
\* messages in c's room: an id no message has, a string that is no UUID, the
\* id of another sender's message, the id of a message of another room.
Unmatched(c) == {id \in EditIds \ {NoMsg} : ~OwnMessage(c, id)}

\* C16: a failed edit_message does not tell whether the message exists.  An
\* edit (non-empty content) naming an id that matches none of the
\* requester's messages in the room is answered with the one frame 'Message
\* not found or you do not have permission to edit it' and nothing is
\* written, published or queued; and the step is the same step for every
\* such id, whether no message has it, another sender's message has it, or
\* a message of another room has it.
C16_FailedEditIndistinguishable ==
    [][nframes' # nframes =>
        \A c \in {x \in Conns : pc[x] = "ACTIVE"} : \A id1 \in Unmatched(c) :
          \A raw \in ContentInputs : strip(raw) # <<>> =>
            \A now \in Now :
              RecvEdit(c, id1, raw, now)
                  => /\ AnsweredWithErrorOnly(c)
                     /\ Last(sent'[c]) = ErrorFrame(ERR_NOT_FOUND)
                     /\ \A id2 \in Unmatched(c) : RecvEdit(c, id2, raw, now)
      ]_vars

\* alice, connected to t2, was answered 'not found' while a message of hers
\* exists in the room of t1 and an id no message has exists too; nothing
\* was published or queued.
C16_Witness ==
    \E c \in Conns :
        /\ user[c] = "alice" /\ trip[c] = "t2"
        /\ sent[c] # <<>>
        /\ Last(sent[c]) = ErrorFrame(ERR_NOT_FOUND)
        /\ EarlierMsg \in msgs /\ EarlierMsg.id \in Unmatched(c)
        /\ uuid4 \cap Unmatched(c) # {}
        /\ \A d \in Conns : published[d] = <<>> /\ inbox[d] = <<>>

\* The reply_to values of a frame of c that identify no message of c's room:
\* no value, a string that is no UUID, an id no message has, the id of a
\* message of another room.
Unresolved(c) ==
    {rt \in ReplyIds : ~\E m \in RoomMsgs(trip[c]) : m.id = rt}

\* C17: a chat_message frame with valid content (and a declared or absent
\* message type, the database answering) whose reply_to identifies no
\* message of the connection's room does not fail: the store gains exactly
\* one message, of the connection's room and user, with no reply link, and
\* the chat_message event of that message, with reply_to = null, is the one
\* the connection publishes next.
C17_UnresolvedReplyPersists ==
    [][nframes' # nframes =>
        \A c \in {x \in Conns : pc[x] = "ACTIVE"} : \A rt \in Unresolved(c) :
          \A raw \in ContentInputs : ValidContent(raw) =>
            \A mt \in MessageTypeInputs \cap (MESSAGE_TYPE_CHOICES \cup {Absent}),
               id \in uuid4, now \in Now :
                RecvChat(c, raw, rt, mt, id, now, DbOk)
                    => /\ GainsOne(c, raw)
                       /\ \A m \in msgs' \ msgs : m.reply_to = NoMsg
                       /\ pending'[c].type = "chat_message"
                       /\ pending'[c].message.reply_to = NoMsg
                       /\ \E m \in msgs' \ msgs : pending'[c] = ChatEvent(m)
      ]_vars

\* Every reply link of a stored message points to a stored message of the
\* same room.
ReplyLinksInRoom ==
    \A m \in msgs :
        m.reply_to # NoMsg =>
            \E x \in msgs : x.id = m.reply_to /\ x.chat_room = m.chat_room

\* C18: in every reachable state every stored message with a reply link
\* points to a message of the same room; and creating a message whose
\* reply_to target belongs to a different room raises ValidationError and
\* persists nothing (a step that does not end so is not such a create).
C18_ReplyInSameRoom ==
    /\ []ReplyLinksInRoom
    /\ [][\/ /\ raised' = ValidationError
             /\ UNCHANGED <<msgs, clock>>
          \/ \A reply_to \in StoredIds, t \in Trips :
                MsgById(reply_to).chat_room # t =>
                  \A u \in Users, content \in StoreContents,
                     newid \in uuid4, now \in Now :
                      ~Create(t, u, content, "text", reply_to, newid, now)
         ]_vars

\* A create was rejected while a message of each room existed, one of them
\* a reply to a message of its room, written through a frame of c1 that
\* named the earlier message.
C18_Witness ==
    /\ raised = ValidationError
    /\ \E m \in msgs : m.chat_room = "t2"
    /\ \E m \in msgs : m.reply_to = EarlierMsg.id /\ m.chat_room = "t1"
    /\ nframes = 1

\* The rooms whose subscriber set holds the connection.
SubscribedTo(c) == {t \in Trips : c \in groups[t]}

Connecting(c) == pc[c] \in {"JOINING", "CREATING", "SUBSCRIBING"}

\* C20: there is at most one ChatRoom row per trip in every state, however
\* the database calls of connecting members interleave; and a step of a
\* connect to a trip that has a room leaves the rooms and the messages as
\* they are.
C20_OneRoomPerTrip ==
    /\ [](\A t \in Trips : Cardinality(rooms[t]) <= 1)
    /\ [][\A c \in Conns :
             (Connecting(c) /\ pc'[c] # pc[c] /\ rooms[trip[c]] # NoRoom)
                 => UNCHANGED <<rooms, msgs>>
         ]_vars

\* Two connections were connecting to the trip without a room, each after a
\* get that found none: one has created the room and is subscribed, the
\* other is about to insert.
C20_Witness ==
    /\ trip["c1"] = "t2" /\ trip["c2"] = "t2"
    /\ \E c \in Conns, d \in Conns :
          /\ c # d
          /\ rooms["t2"] = {c} /\ c \in groups["t2"]
          /\ pc[d] = "CREATING"

\* The user of connection c is no collaborator of c's trip (any more).
Revoked(c) == user[c] \in Users /\ <<user[c], trip[c]>> \notin collab

\* The frame handlers and the event handler of c are ready.
StillServed(c) ==
    /\ nframes < frameBound =>
          /\ ENABLED RecvTyping(c, TRUE)
          /\ ENABLED (\E id \in MsgIds, now \in 0..MaxClock :
                         RecvChat(c, <<"a">>, NoMsg, Absent, id, now, DbOk))
          /\ ENABLED (\E id \in MsgIds, now \in 0..MaxClock :
                         RecvEdit(c, id, <<"a">>, now))
    /\ inbox[c] # <<>> => ENABLED Deliver(c)

\* C21: the membership is consulted in connect only.  Deleting a membership
\* changes no connection, group or queue; a connection past the access
\* check is never closed with a code afterwards; an ACTIVE connection whose
\* user is no member any more still has its chat_message frames persisted,
\* its edit_message frames applied, its typing published and its events
\* forwarded; and a connect of a user who is not a member of the trip at
\* that time is closed with 4003.
C21_MembershipCheckedAtConnect ==
    /\ [][\A c \in Conns :
             /\ \A u \in Users, t \in Trips :
                   RemoveCollaborator(u, t)
                       => UNCHANGED <<pc, closeCode, groups, inbox, sent, msgs>>
             /\ pc[c] # "INIT" => closeCode'[c] = closeCode[c]
             /\ (pc[c] = "ACTIVE" /\ Revoked(c)) =>
                   /\ pc'[c] \in {"ACTIVE", "PUBLISHING"}
                   /\ c \in groups'[trip[c]]
                   /\ nframes' # nframes =>
                         \A now \in Now :
                           /\ \A raw \in SavedInputs, id \in uuid4 :
                                 RecvChat(c, raw, NoMsg, Absent, id, now, DbOk)
                                     => GainsOne(c, raw)
                           /\ \A raw \in SavedInputs, id \in MsgIds :
                                 (OwnMessage(c, id) /\ RecvEdit(c, id, raw, now))
                                     => /\ pending'[c].type = "message_edited"
                                        /\ \E m \in msgs' :
                                              /\ m.id = id
                                              /\ m.content = strip(raw)
                   /\ RecvTyping(c, TRUE)
                         => Last(published'[c]) = TypingEvent(c, TRUE)
                   /\ Deliver(c)
                         => /\ handled'[c] = Append(handled[c], Head(inbox[c]))
                            /\ sent'[c] = sent[c] \o FramesFor(Head(inbox[c]), c)
             /\ (pc[c] = "INIT" /\ pc'[c] # "INIT" /\ user'[c] \in Users
                    /\ <<user'[c], trip'[c]>> \notin collab)
                   => closeCode'[c] = FORBIDDEN /\ pc'[c] = "REJECTED"
         ]_vars
    /\ [](\A c \in Conns : (pc[c] = "ACTIVE" /\ Revoked(c)) => StillServed(c))

\* bob's membership of t1 is gone; his open connection c1 is still active
\* and subscribed and has been sent the frame of a message it persisted,
\* while his second connection was closed with 4003.
C21_Witness ==
    /\ <<"bob", "t1">> \notin collab
    /\ pc["c1"] = "ACTIVE" /\ "c1" \in groups["t1"]
    /\ Last(sent["c1"]).type = "chat_message"
    /\ Last(sent["c1"]).message.sender = "bob"
    /\ Last(sent["c1"]).message.id # EarlierMsg.id
    /\ user["c2"] = "bob" /\ trip["c2"] = "t1"
    /\ closeCode["c2"] = FORBIDDEN

\* C22: every exception raised while a frame of c is processed (a frame
\* whose JSON value or field has an unexpected type, a group_send that
\* raises, a frame the handler cannot take) is answered with the generic
\* error frame; c is not closed and stays subscribed; and a connection that
\* is open between two frames handles the next one.
C22_ExceptionsAnswered ==
    /\ [][\A c \in Conns :
             (RecvInvalid(c, ERR_INTERNAL) \/ PublishFails(c) \/ RecvBinary(c))
                 => /\ Len(sent'[c]) = Len(sent[c]) + 1
                    /\ Last(sent'[c]) = ErrorFrame(ERR_INTERNAL)
                    /\ pc'[c] = "ACTIVE"
                    /\ c \in groups'[trip[c]]
         ]_vars
    /\ [](\A c \in Conns :
            (c \in groups[trip[c]] /\ pc[c] # "PUBLISHING"
                 /\ nframes < frameBound) => HandlesFrames(c))

\* C23: in every reachable state the content of every stored message is
\* non-empty after trimming and at most 10000 characters long.
C23_ContentWithinLimits ==
    \A m \in msgs :
        strip(m.content) # <<>> /\ Len(m.content) <= MaxContentLen

\* m comes before n in the order of the messages: ascending created_at,
\* ties broken by id.
Before(m, n) ==
    \/ m.created_at < n.created_at
    \/ m.created_at = n.created_at /\ m.id < n.id

\* The messages of S in that order.
InOrder(S) ==
    CHOOSE s \in [1..Cardinality(S) -> S] :
        \A i, j \in 1..Cardinality(S) : i < j => Before(s[i], s[j])

\* The last limit messages of room t in that order.
MostRecent(t, limit) ==
    LET s == InOrder(RoomMsgs(t))
    IN  SubSeq(s, IF Len(s) > limit THEN Len(s) - limit + 1 ELSE 1, Len(s))

\* C24: the history read returns the most recent messages of the room by
\* the total order (ascending created_at, ties broken by id), in that order;
\* so the frame a connection is sent is determined by the stored messages.
C24_HistoryInTotalOrder ==
    [][\A c \in Conns :
          SendRecentMessages(c)
              => Last(sent'[c]) = HistoryFrame(MostRecent(trip[c], DefaultLimit))
      ]_vars

\* Nothing is saved for publishing and every queued event has been taken.
Quiescent ==
    \A c \in Conns : pending[c] = NoEvent /\ inbox[c] = <<>>

\* The message_edited frames connection c was sent for message id, in order.
EditedFrames(c, id) ==
    SelectSeq(sent[c],
              LAMBDA f : f.type = "message_edited" /\ f.message.id = id)

\* C25 as claimed (its second half): once every published event has been
\* delivered, the last message_edited frame a subscriber was sent for a
\* message carries the content the store holds for that message.
C25_LastEditFrameIsStored ==
    Quiescent =>
        \A c \in Conns, m \in msgs :
            (pc[c] = "ACTIVE" /\ EditedFrames(c, m.id) # <<>>)
                => Last(EditedFrames(c, m.id)).message.content = m.content

\* The message_edited events published for message id by connection d.
EditedBy(d, id) ==
    SelectSeq(published[d],
              LAMBDA ev : ev.type = "message_edited" /\ ev.message.id = id)

\* The frame a consumer sends for the message_edited event of row m.
EditedFrameOf(m) == [type |-> "message_edited", message |-> serialize_message(m)]

\* C25, amended: an edit leaves the store with the content of that edit
\* (the edit persisted last wins) and saves for publishing the event of the
\* row it wrote; once every published event has been delivered, each
\* subscriber has been sent one message_edited frame per published edit of
\* a message, and the frame of the row the store holds is among them, not
\* necessarily as the last one.
C25_EditFramesCarryWrites ==
    /\ [][nframes' # nframes =>
            \A c \in Conns, id \in MsgIds : OwnMessage(c, id) =>
              \A raw \in ContentInputs, now \in Now :
                (strip(raw) # <<>> /\ RecvEdit(c, id, raw, now))
                    => \E m \in msgs' :
                          /\ m.id = id /\ m.content = strip(raw)
                          /\ pending'[c].type = "message_edited"
                          /\ pending'[c].message = serialize_message(m)
         ]_vars
    /\ [](Quiescent =>
            \A c \in Conns, m \in msgs :
              /\ Len(EditedFrames(c, m.id))
                    = Len(EditedBy("c1", m.id)) + Len(EditedBy("c2", m.id))
              /\ EditedFrames(c, m.id) # <<>>
                    => \E i \in 1..Len(EditedFrames(c, m.id)) :
                          EditedFrames(c, m.id)[i] = EditedFrameOf(m))

\* Two edits of one message were persisted in one order and published in
\* the other: everything is delivered, and the last message_edited frame of
\* a subscriber carries a content the store no longer holds, while the
\* frame before it carries the stored one.
C25_Witness ==
    /\ Quiescent
    /\ \E c \in Conns, m \in msgs :
          /\ Len(EditedFrames(c, m.id)) = 2
          /\ EditedFrames(c, m.id)[1] = EditedFrameOf(m)
          /\ EditedFrames(c, m.id)[2].message.content # m.content

\* A frame handler of connection c can start.
FrameReady(c) ==
    \/ ENABLED RecvTyping(c, TRUE)
    \/ ENABLED RecvInvalid(c, ERR_JSON)
    \/ ENABLED (\E id \in MsgIds, now \in 0..MaxClock :
                   RecvChat(c, <<"a">>, NoMsg, Absent, id, now, DbOk))

\* C26: the frames of one connection are handled one at a time.  While the
\* publish of a frame of c is outstanding, no handler of a later frame of c
\* can start, c is sent no error reply and c publishes nothing but the
\* outstanding event; consequently the chat_message events c published are
\* in the created_at order of their messages, each message once.
C26_FramesInArrivalOrder ==
    /\ [](\A c \in Conns : pc[c] = "PUBLISHING" => ~FrameReady(c))
    /\ [][\A c \in Conns :
             pc[c] = "PUBLISHING"
                 => /\ sent'[c] = sent[c]
                    /\ \/ published'[c] = published[c]
                       \/ published'[c] = Append(published[c], pending[c])
         ]_vars
    /\ [](\A c \in Conns :
            \A i, j \in 1..Len(PublishedBy(c)) :
                i < j => /\ PublishedBy(c)[i].created_at
                              <= PublishedBy(c)[j].created_at
                         /\ PublishedBy(c)[i].id # PublishedBy(c)[j].id)

\* A connection has persisted and published two messages, the second one
\* later than the first, and both were delivered in that order.
C26_Witness ==
    \E c \in Conns :
        /\ Len(PublishedBy(c)) = 2
        /\ PublishedBy(c)[1].created_at < PublishedBy(c)[2].created_at
        /\ Cardinality({m \in msgs : m.sender = user[c]}) >= 2
        /\ ChatMessages(sent[c]) = PublishedBy(c)

\* The connection is subscribed to its room and open: connect is at the
\* history read or has returned.
Served(c) == pc[c] \in {"ACCEPTED", "ACTIVE", "PUBLISHING"}

\* The message is in the message_history frame the connection was sent.
InHistory(c, id) ==
    /\ sent[c] # <<>>
    /\ sent[c][1].type = "message_history"
    /\ \E i \in 1..Len(sent[c][1].messages) : sent[c][1].messages[i].id = id

\* The message was sent to the connection as a chat_message frame after the
\* history.
Received(c, id) ==
    \E i \in 2..Len(sent[c]) :
        sent[c][i].type = "chat_message" /\ sent[c][i].message.id = id

\* The chat_message event of the message waits in the connection's channel.
Queued(c, id) ==
    \E i \in 1..Len(inbox[c]) :
        inbox[c][i].type = "chat_message" /\ inbox[c][i].message.id = id

\* The handler that wrote the message stands before its group_send.
InFlight(id) ==
    \E d \in Conns :
        /\ pc[d] = "PUBLISHING"
        /\ pending[d].type = "chat_message"
        /\ pending[d].message.id = id

\* The live path has the message for the connection.
OnLivePath(c, id) == InFlight(id) \/ Queued(c, id) \/ Received(c, id)

\* C27: no message is lost across a join.  A connection is in the group of
\* its room when its history is read; a history read of a room with at most
\* the limit of messages contains every message stored by then; a message
\* stored while the connection is subscribed is on the live path to it,
\* and stays there (publish pending, queued in its channel, or sent as a
\* chat_message frame) as long as the connection is open.  So for an open
\* connection whose connect has returned, every message of a room within
\* the limit is in its history frame or on the live path to it.
C27_NoMessageLostAcrossJoin ==
    /\ [](\A c \in Conns : pc[c] = "ACCEPTED" => c \in groups[trip[c]])
    /\ [][\A c \in Conns :
             /\ (SendRecentMessages(c)
                    /\ Cardinality(RoomMsgs(trip[c])) <= DefaultLimit)
                   => \A m \in RoomMsgs(trip[c]) : InHistory(c, m.id)'
             /\ (Served(c) /\ Served(c)')
                   => \A m \in msgs' :
                         /\ (m.chat_room = trip[c] /\ m.id \notin StoredIds)
                               => InFlight(m.id)'
                         /\ (m.chat_room = trip[c] /\ OnLivePath(c, m.id))
                               => OnLivePath(c, m.id)'
         ]_vars
    /\ [](\A c \in Conns :
            (pc[c] \in {"ACTIVE", "PUBLISHING"}
               /\ Cardinality(RoomMsgs(trip[c])) <= DefaultLimit)
              => \A m \in RoomMsgs(trip[c]) :
                    InHistory(c, m.id) \/ OnLivePath(c, m.id))

\* A message was written by one connection while another was joining the
\* room: the joiner has it in its history frame and was sent it again as a
\* chat_message frame.
C27_Witness ==
    \E c \in Conns, d \in Conns, m \in msgs :
        /\ c # d
        /\ m # EarlierMsg
        /\ m.chat_room = trip[c]
        /\ published[d] # <<>>
        /\ InHistory(c, m.id)
        /\ Received(c, m.id)

\* A chat_message or message_edited event.
IsMessageEvent(ev) == ev.type \in {"chat_message", "message_edited"}

\* The event carries a message stored in room t.
CarriesStored(ev, t) ==
    \E m \in RoomMsgs(t) :
        /\ m.id = ev.message.id
        /\ ev.message.chat_room_id = t
        /\ ev.message.sender = m.sender
        /\ ev.message.created_at = m.created_at

\* The message events on the fabric: awaiting group_send, queued in a
\* channel, or recorded as published.
OnFabric(c) ==
    {ev \in {pending[c]} \cup {inbox[c][i] : i \in 1..Len(inbox[c])}
              \cup {published[c][i] : i \in 1..Len(published[c])} :
        IsMessageEvent(ev)}

\* C28: persist precedes publish.  A handler gets a chat_message or
\* message_edited event to publish only in the step that writes the message,
\* the event is the serialization of the row as the store holds it right
\* after that write, and the frame is not answered with an error; the event
\* a connection publishes is the one its write produced; a frame that is
\* answered with an error publishes nothing; so every message event on the
\* fabric carries a message stored in the room it is published to.
C28_PersistPrecedesPublish ==
    /\ [][\A c \in Conns :
             /\ (pending'[c] # pending[c] /\ IsMessageEvent(pending'[c]))
                   => /\ \E m \in msgs' :
                            /\ m.chat_room = trip[c]
                            /\ pending'[c].message = serialize_message(m)
                            /\ pending'[c].type = "chat_message"
                                  => m.id \notin StoredIds
                            /\ pending'[c].type = "message_edited"
                                  => m.id \in StoredIds
                      /\ sent'[c] = sent[c]
                      /\ published' = published
             /\ (published'[c] # published[c]
                    /\ IsMessageEvent(Last(published'[c])))
                   => /\ published'[c] = Append(published[c], pending[c])
                      /\ CarriesStored(pending[c], trip[c])
                      /\ msgs' = msgs
             /\ (Len(sent'[c]) > Len(sent[c])
                    /\ Last(sent'[c]).type = "error")
                   => /\ published' = published
                      /\ inbox' = inbox
                      /\ pending'[c] = NoEvent
                      /\ msgs' = msgs
         ]_vars
    /\ [](\A c \in Conns :
            /\ \A ev \in OnFabric(c) \ {pending[c]} :
                   CarriesStored(ev, trip[c])
            /\ IsMessageEvent(pending[c])
                  => pc[c] = "PUBLISHING" /\ CarriesStored(pending[c], trip[c]))

\* The edit of a stored message has been published and forwarded to another
\* connection of the room; the event is the row the store holds.
C28_Witness ==
    \E c \in Conns, d \in Conns, m \in msgs :
        /\ c # d
        /\ published[c] = << EditedEvent(m) >>
        /\ Len(sent[d]) >= 2
        /\ Last(sent[d]).type = "message_edited"
        /\ Last(sent[d]).message = serialize_message(m)

\* The Bearer value of the Authorization header, NoToken without one.
BearerValue(h) ==
    IF h # NoHeader /\ h[1] = "Bearer" /\ h[2] # "" THEN h[2] ELSE NoToken

\* The handshake credential: the query parameter when present and
\* non-empty, otherwise the Bearer value of the header.
Credential(q, h) == IF q # NoToken THEN q ELSE BearerValue(h)

\* The token validator accepts the token.
Valid(tok) == get_user_from_token(tok) \in Users

\* C29 as stated: the connection is authenticated as u exactly when the
\* selected credential validates to u; a handshake that carries a valid
\* credential in the query parameter or in the header is authenticated; the
\* identity does not change after the handshake.
C29_ValidCredentialAuthenticates ==
    [][\A c \in Conns :
          /\ (pc[c] = "INIT" /\ pc'[c] # "INIT")
                => \A t \in Trips, q \in QueryTokens, h \in Headers :
                      Connect(c, t, q, h)
                        => /\ \A u \in Users :
                                 user'[c] = u
                                   <=> get_user_from_token(Credential(q, h)) = u
                           /\ (Valid(q) \/ Valid(BearerValue(h)))
                                 => user'[c] \in Users
          /\ pc[c] # "INIT" => user'[c] = user[c]
      ]_vars

\* C29, amended: the connection is authenticated as u exactly when the
\* selected credential validates to u.  A valid query token authenticates
\* whatever the header holds; a valid Bearer value authenticates when the
\* query parameter is absent or empty; with a query token the validator
\* rejects the connection is anonymous (and closed with 4001) whatever the
\* header holds.  The identity does not change after the handshake.
C29_SelectedCredentialAuthenticates ==
    [][\A c \in Conns :
          /\ (pc[c] = "INIT" /\ pc'[c] # "INIT")
                => \A t \in Trips, q \in QueryTokens, h \in Headers :
                      Connect(c, t, q, h)
                        => /\ \A u \in Users :
                                 user'[c] = u
                                   <=> get_user_from_token(Credential(q, h)) = u
                           /\ Valid(q) => user'[c] = get_user_from_token(q)
                           /\ (q = NoToken /\ Valid(BearerValue(h)))
                                 => user'[c] = get_user_from_token(BearerValue(h))
                           /\ (q # NoToken /\ ~Valid(q))
                                 => /\ user'[c] = Anonymous
                                    /\ closeCode'[c] = UNAUTHORIZED
          /\ pc[c] # "INIT" => user'[c] = user[c]
      ]_vars

\* The first connection is bob's (only a query parameter carries bob's
\* token) and has handled a frame; the second, whose header holds alice's
\* token, was closed with 4001: its query parameter held a token the
\* validator rejects.
C29_Witness ==
    /\ user["c1"] = "bob"
    /\ published["c1"] # <<>>
    /\ user["c2"] = Anonymous
    /\ closeCode["c2"] = UNAUTHORIZED

\* The requests of the key that _check_rate_limit has admitted.
Admitted(k) ==
    {r \in Reqs : requests[r].key = k /\ requests[r].pc = "admitted"}

\* C30: for each (identifier, path) at most `limit` requests are admitted
\* in a window, also when requests of one identifier are checked
\* concurrently.
C30_AtMostLimitAdmitted ==
    \A k \in CacheKeys : Cardinality(Admitted(k)) <= DEFAULT_RATE_LIMIT

=============================================================================
